---- MODULE Spec2Model ----
(***************************************************************************)
(* The run orchestration layer of the career-fair layout optimizer:        *)
(*   - the session state of App.tsx (screens, run registry, derived views) *)
(*   - the client call optimizeLayout (optimizerClient.ts)                 *)
(*   - the company file read of CompanyUploadScreen (ResultsScreen.tsx)    *)
(*   - the request handler POST of the /api/optimize route (part_000)      *)
(* Distances are integers in tenths of a unit, scores in thousandths.      *)
(***************************************************************************)
EXTENDS Integers, Sequences, FiniteSets, TLC

(***************************************************************************)
(* Bounds of the model                                                     *)
(***************************************************************************)
\* job executions (working directories provisioned) in one behaviour
MaxExecutions == 2
\* job executions of the sessions that rank runs by score
PairMaxExecutions == 3
\* job executions of the long sessions used for the room labels
LabelMaxExecutions == 6
\* parseCompaniesFromFile calls that await their file at the same time
MaxParses == 2
\* the largest min_distance and typical_spacing of the scored result
\* documents, in tenths
MaxDistance == 105
MaxSpacing == 40

(***************************************************************************)
(* Values                                                                  *)
(***************************************************************************)
\* JS undefined / null for a string-valued field
Undefined == "<undefined>"
Null == "<null>"
\* a form field that was not sent
Absent == "<absent>"
\* PythonPayload.typical_spacing is optional: the value of a missing field
AbsentSpacing == -1
\* the close event's code when the child was terminated by a signal
NullCode == -1
\* min_distance of a document that has no such field (undefined)
UndefinedDistance == -1
\* Number("NaN"), the score of an undefined distance
NaNScore == -1

Modes == {"primary", "overflow", "comparison"}

FileName(stem, ext) == [stem |-> stem, ext |-> ext]
NoFile == FileName("", "")
CompaniesJson == FileName("companies", "json")
PlotPng == FileName("plot", "png")
ResultJson == FileName("result", "json")

Range(s) == {s[i] : i \in 1..Len(s)}

(***************************************************************************)
(* Pure functions                                                          *)
(***************************************************************************)
\* the fallback baseline, in units
FallbackBaseline == 10

\* mutant: the score is cut off after three decimals, not rounded
scoreFromDistance_Truncates(minDistance, typicalSpacing) ==
  LET useTypical == typicalSpacing # AbsentSpacing /\ typicalSpacing > 0
      num == IF useTypical THEN 2 * minDistance ELSE minDistance
      den == IF useTypical THEN 5 * typicalSpacing ELSE FallbackBaseline * 10
      clamped == IF num > den THEN den ELSE IF num < 0 THEN 0 ELSE num
  IN  IF minDistance = UndefinedDistance THEN NaNScore
      ELSE (1000 * clamped) \div den

\* part_000 scoreFromDistance: minDistance / baseline clamped to [0,1] and
\* rounded to 3 decimals (toFixed(3)); the result is in thousandths.
\* baseline = typicalSpacing * 2.5, so the ratio is 2d / 5t.
scoreFromDistance(minDistance, typicalSpacing) ==
  LET useTypical == typicalSpacing # AbsentSpacing /\ typicalSpacing > 0
      num == IF useTypical THEN 2 * minDistance ELSE minDistance
      den == IF useTypical THEN 5 * typicalSpacing ELSE FallbackBaseline * 10
      clamped == IF num > den THEN den ELSE IF num < 0 THEN 0 ELSE num
  IN  IF minDistance = UndefinedDistance THEN NaNScore
      ELSE (2 * 1000 * clamped + den) \div (2 * den)

\* mutant: the fallback label uses the index, not the index plus one
pickRoomLabel_IndexAsNumber(index) ==
  LET labels == <<"Room A", "Room B", "Room C", "Room D">>
  IN  IF index + 1 \in DOMAIN labels THEN labels[index + 1]
      ELSE "Room " \o ToString(index)

\* App.tsx pickRoomLabel: labels[index] ?? `Room ${index + 1}`
pickRoomLabel(index) ==
  LET labels == <<"Room A", "Room B", "Room C", "Room D">>
  IN  IF index + 1 \in DOMAIN labels THEN labels[index + 1]
      ELSE "Room " \o ToString(index + 1)

\* mutant: a sort that puts a later run before an earlier run of equal score
RECURSIVE InsertByScore_Unstable(_, _)
InsertByScore_Unstable(x, sorted) ==
  IF sorted = <<>> THEN <<x>>
  ELSE IF Head(sorted).score - x.score <= 0
       THEN <<x>> \o sorted
       ELSE <<Head(sorted)>> \o InsertByScore_Unstable(x, Tail(sorted))

\* Array.prototype.sort((a, b) => b.score - a.score): a stable sort, score
\* descending; an element goes after every element that does not rank below it
RECURSIVE InsertByScore(_, _)
InsertByScore(x, sorted) ==
  IF sorted = <<>> THEN <<x>>
  ELSE IF Head(sorted).score - x.score < 0
       THEN <<x>> \o sorted
       ELSE <<Head(sorted)>> \o InsertByScore(x, Tail(sorted))

RECURSIVE SortByScore(_)
SortByScore(list) ==
  IF list = <<>> THEN <<>>
  ELSE InsertByScore(list[Len(list)], SortByScore(SubSeq(list, 1, Len(list) - 1)))

\* Array.prototype.slice(0, 2)
SliceTwo(list) == SubSeq(list, 1, IF Len(list) < 2 THEN Len(list) ELSE 2)

\* App.tsx selectComparisonPair
selectComparisonPair(list) == SliceTwo(SortByScore(list))

\* mutant: the comparison runs are not filtered out
PlacementRunsOf_AllRuns(list) == list

\* App.tsx: runs.filter((r) => r.mode !== "comparison")
PlacementRunsOf(list) == SelectSeq(list, LAMBDA r : r.mode # "comparison")
\* App.tsx: runs.filter((r) => r.mode === "comparison")
ComparisonRunsOf(list) == SelectSeq(list, LAMBDA r : r.mode = "comparison")

\* App.tsx remainingCompanies, the Set `placed`: every assignment of every
\* placement run is added to it
RECURSIVE PlacedOf(_)
PlacedOf(placements) ==
  IF placements = <<>> THEN {}
  ELSE Range(Head(placements).assignments) \cup PlacedOf(Tail(placements))

\* mutant: the runs of every mode count as placed
RemainingOf_AllRuns(companyList, list) ==
  LET placed == PlacedOf(list)
  IN  SelectSeq(companyList, LAMBDA c : c \notin placed)

\* App.tsx remainingCompanies: companies.filter((c) => !placed.has(c))
RemainingOf(companyList, list) ==
  LET placed == PlacedOf(PlacementRunsOf(list))
  IN  SelectSeq(companyList, LAMBDA c : c \notin placed)

\* a string cell of a sheet is the sequence of its characters
\* String.prototype.trim: the white space at both ends is dropped
RECURSIVE TrimStart(_)
TrimStart(chars) ==
  IF chars # <<>> /\ Head(chars) = " " THEN TrimStart(Tail(chars)) ELSE chars
RECURSIVE TrimEnd(_)
TrimEnd(chars) ==
  IF chars # <<>> /\ chars[Len(chars)] = " "
  THEN TrimEnd(SubSeq(chars, 1, Len(chars) - 1))
  ELSE chars
Trim(chars) == TrimEnd(TrimStart(chars))
\* the string of a sequence of characters
RECURSIVE Text(_)
Text(chars) == IF chars = <<>> THEN "" ELSE Head(chars) \o Text(Tail(chars))

\* part_000 lines 114-119 and ResultsScreen.tsx lines 318-323, the same code:
\* the name in the first cell of a row, a string trimmed, a number as text,
\* anything else ""
CellText(cell) ==
  IF cell.k = "str" THEN Text(Trim(cell.s))
  ELSE IF cell.k = "num" THEN ToString(cell.n)
  ELSE ""

\* part_000 lines 113-120 and ResultsScreen.tsx lines 317-324:
\* rows.map(...).filter((x) => x.length > 0)
RECURSIVE FirstColumn(_)
FirstColumn(rows) ==
  IF rows = <<>> THEN <<>>
  ELSE LET x == CellText(Head(rows))
       IN  (IF x # "" THEN <<x>> ELSE <<>>) \o FirstColumn(Tail(rows))

\* ResultsScreen.tsx line 326, Array.from(new Set(names)): a Set keeps the
\* first insertion of a value, in insertion order
RECURSIVE ArrayFromSet(_)
ArrayFromSet(names) ==
  IF names = <<>> THEN <<>>
  ELSE LET rest == ArrayFromSet(SubSeq(names, 1, Len(names) - 1))
           last == names[Len(names)]
       IN  IF last \in Range(rest) THEN rest ELSE Append(rest, last)

\* ResultsScreen.tsx lines 312-326: uniqueNames of the rows of the first sheet
uniqueNames(rows) == ArrayFromSet(FirstColumn(rows))

(***************************************************************************)
(* State                                                                   *)
(***************************************************************************)
VARIABLES
  \* App.tsx useState
  currentScreen, companies, layoutFile, layoutImageUrl, runs, error,
  uploadMode, comparisonPair, pendingRoomLabel,
  \* the arguments of the startOptimization call that awaits optimizeLayout
  \* and whose request is with the handler, and of the calls that await it
  \* while their request is still on its way
  call, queued,
  \* the parseCompaniesFromFile calls of company upload screens that await the
  \* file's bytes
  parses,
  \* the request/response between optimizeLayout (or another caller) and POST
  srvPc, origin, req, resp,
  \* the handler's host: temporary directories on disk, crypto.randomUUID,
  \* and of the execution being handled: its working directory and the files
  \* in it, what runPython resolved with, whether the result document was read
  \* and the arguments python3 was spawned with
  dirSeq, fsDirs, workDir, workFiles, proc, docRead, uuidSeq, spawned

uploadVars == <<queued, parses>>
appVars == <<currentScreen, companies, layoutFile, layoutImageUrl, runs, error,
             uploadMode, comparisonPair, pendingRoomLabel, call, uploadVars>>
netVars == <<srvPc, origin, req, resp>>
hostVars == <<dirSeq, fsDirs, workDir, workFiles, proc, docRead, uuidSeq, spawned>>
vars == <<appVars, netVars, hostVars>>

\* App.tsx derived values of a render
placementRuns == PlacementRunsOf(runs)
comparisonRuns == ComparisonRunsOf(runs)
remainingCompanies == RemainingOf(companies, runs)

\* a companiesFile form field: a spreadsheet and the cells of its first column
NoSheet == [present |-> FALSE, readable |-> FALSE, rows |-> <<>>]
NoProc == [code |-> 0, stdout |-> Undefined, stderr |-> Undefined]
NoArgs == [script |-> "", layoutFlag |-> "", layoutPath |-> <<0, NoFile>>,
           companiesJsonPath |-> <<0, NoFile>>, maxCompanies |-> 0,
           plotPath |-> <<0, NoFile>>, jsonOutPath |-> <<0, NoFile>>]
NoCall == [mode |-> "none", file |-> NoFile, companies |-> <<>>, roomLabel |-> Undefined]
NoRun == [id |-> 0, mode |-> "none", roomLabel |-> Undefined, minDistance |-> 0,
          typicalSpacing |-> AbsentSpacing, score |-> 0,
          assignments |-> <<>>, unplacedCompanies |-> <<>>, plotUrl |-> Undefined]
\* App.tsx line 168: primaryRun={placementRuns[0]}, undefined without one
primaryRun == IF placementRuns = <<>> THEN NoRun ELSE placementRuns[1]

NoForm == [layout |-> NoFile,
           companies |-> [tag |-> "absent", isArray |-> FALSE, items |-> <<>>],
           companiesFile |-> NoSheet, mode |-> Absent, roomLabel |-> Absent]
NoResp == [status |-> 0, error |-> Undefined, detail |-> Undefined, code |-> 0,
           run |-> NoRun, stdout |-> Undefined, stderr |-> Undefined]


(***************************************************************************)
(* Inputs                                                                  *)
(***************************************************************************)
LayoutFiles == {FileName("hall", "png"), FileName("gym", "xlsx")}
CompanyLists == {<<"A", "B", "C", "D">>, <<"D", "B">>}
\* <<min_distance, typical_spacing>> of a result document, in tenths
JobMetrics == {<<90, AbsentSpacing>>, <<50, 40>>}
\* how many companies of its list a job places (at most the whole list)
PlaceCounts == {0, 1, 2}
ExitCodes == {0, 1, NullCode}
StdoutTexts == {"", "placed"}
StderrTexts == {"", "Traceback"}
\* result documents that are no result: none written, or not JSON
BadDocs == {"missing", "unparsable"}
\* and one that is JSON but holds no field of PythonPayload: {}
UnusableDocs == BadDocs \cup {"fieldless"}
\* where the handler's file system calls can throw
IoFaults == {"none", "mkdtemp", "write"}

\* the first cell of a row: a string, a number or nothing
StrCell(chars) == [k |-> "str", s |-> chars, n |-> 0]
NumCell(n) == [k |-> "num", s |-> <<>>, n |-> n]
NullCell == [k |-> "null", s |-> <<>>, n |-> 0]
\* company files: a workbook XLSX.read throws on, one without rows, and one
\* whose first column holds a name twice (with white space around it), an
\* empty cell, a number and a cell of white space
Sheets ==
  {[present |-> TRUE, readable |-> FALSE, rows |-> <<>>],
   [present |-> TRUE, readable |-> TRUE, rows |-> <<>>],
   [present |-> TRUE, readable |-> TRUE,
    rows |-> <<StrCell(<<" ", "A">>), NullCell, NumCell(7),
              StrCell(<<"A", " ">>), StrCell(<<" ", " ">>)>>]}

DirectForms ==
  [layout : LayoutFiles \cup {NoFile},
   companies : {[tag |-> "absent", isArray |-> FALSE, items |-> <<>>],
                [tag |-> "badjson", isArray |-> FALSE, items |-> <<>>],
                [tag |-> "json", isArray |-> FALSE, items |-> <<>>],
                [tag |-> "json", isArray |-> TRUE, items |-> <<>>],
                [tag |-> "json", isArray |-> TRUE, items |-> <<"A", "B">>]},
   companiesFile : Sheets \cup {NoSheet},
   mode : {Absent, "overflow"},
   roomLabel : {Absent, "Hall 1"}]

\* the inputs of a specification: B.maxExec bounds the executions, the other
\* fields are the sets the inputs are drawn from
WideInputs == [maxExec |-> MaxExecutions, layoutFiles |-> LayoutFiles,
               companyLists |-> CompanyLists, metrics |-> JobMetrics,
               placeCounts |-> PlaceCounts, badDocs |-> BadDocs,
               exitCodes |-> {0, 1}, stdouts |-> {"placed"},
               stderrs |-> StderrTexts, plots |-> {TRUE}, ioFaults |-> IoFaults,
               forms |-> DirectForms, sheets |-> Sheets]

(***************************************************************************)
(* The client: optimizerClient.ts and App.tsx                              *)
(***************************************************************************)
Truthy(str) == str # Undefined /\ str # Null /\ str # Absent /\ str # ""

\* optimizerClient.ts optimizeLayout, lines 11-20: the form data of a request;
\* JSON.stringify(companies) is the text of an array
OptimizeForm(c) ==
  [layout |-> c.file,
   companies |-> [tag |-> "json", isArray |-> TRUE, items |-> c.companies],
   companiesFile |-> NoSheet,
   mode |-> c.mode,
   roomLabel |-> IF Truthy(c.roomLabel) THEN c.roomLabel ELSE Absent]

\* App.tsx startOptimization up to its await (lines 72-77) and optimizeLayout up
\* to its fetch (lines 10-25)
StartOptimization(B, mode, file, companyList, roomLabel) ==
  LET c == [mode |-> mode, file |-> file, companies |-> companyList,
            roomLabel |-> roomLabel]
  IN  /\ srvPc = "idle"
      /\ dirSeq < B.maxExec
      /\ error' = Null
      /\ currentScreen' = IF mode = "comparison" THEN "comparisonLoading" ELSE "loading"
      /\ call' = c
      /\ req' = OptimizeForm(c)
      /\ origin' = "app"
      /\ srvPc' = "request"
      /\ resp' = NoResp

\* ResultsScreen.tsx CompanyUploadScreen: a parseCompaniesFromFile call at its
\* await (line 305). sheet is the company file chosen, file the layoutFile of
\* the render whose handleCompanyUploadNext is its onNext, mounted whether its
\* screen is still the one shown.
Parse(sheet, file) == [sheet |-> sheet, file |-> file, mounted |-> TRUE]
\* the screen is unmounted; its calls go on
Unmount(ps) == [i \in DOMAIN ps |-> [ps[i] EXCEPT !.mounted = FALSE]]
RemoveAt(seq, i) == SubSeq(seq, 1, i - 1) \o SubSeq(seq, i + 1, Len(seq))
\* the isParsing state of the screen shown
isParsing == \E i \in DOMAIN parses : parses[i].mounted

handleWelcomeNext ==
  /\ currentScreen = "welcome"
  /\ currentScreen' = "instructions"
  /\ UNCHANGED <<companies, layoutFile, layoutImageUrl, runs, error, uploadMode,
                 comparisonPair, pendingRoomLabel, call, netVars, hostVars>>
  /\ UNCHANGED uploadVars

handleInstructionsNext(B) ==
  /\ currentScreen = "instructions"
  /\ \E file \in B.layoutFiles :
       /\ layoutImageUrl' = TRUE
       /\ layoutFile' = file
  /\ currentScreen' = "companyUpload"
  /\ UNCHANGED <<companies, runs, error, uploadMode, comparisonPair,
                 pendingRoomLabel, call, netVars, hostVars>>
  /\ UNCHANGED uploadVars

\* App.tsx line 157: onBack of the company upload screen
handleCompanyUploadBack ==
  /\ currentScreen = "companyUpload"
  /\ currentScreen' = "instructions"
  /\ parses' = Unmount(parses)
  /\ UNCHANGED <<companies, layoutFile, layoutImageUrl, runs, error, uploadMode,
                 comparisonPair, pendingRoomLabel, call, queued, netVars, hostVars>>

\* the company upload screen calls onNext with a non-empty list of distinct
\* names: a file is chosen (the button is disabled while isParsing) and
\* parseCompaniesFromFile runs to its end before anything else happens
handleCompanyUploadNext(B) ==
  /\ currentScreen = "companyUpload"
  /\ ~isParsing
  /\ \E companyList \in B.companyLists :
       IF layoutFile = NoFile
       THEN /\ error' = "Upload a layout before continuing."
            /\ currentScreen' = "instructions"
            /\ UNCHANGED <<companies, call, netVars>>
       ELSE /\ companies' = companyList
            /\ StartOptimization(B, "primary", layoutFile, companyList, pickRoomLabel(0))
  /\ UNCHANGED <<layoutFile, layoutImageUrl, runs, uploadMode, comparisonPair,
                 pendingRoomLabel, hostVars>>
  /\ UNCHANGED uploadVars

handleResultsBack ==
  /\ currentScreen = "results"
  /\ companies' = <<>>
  /\ runs' = <<>>
  /\ layoutImageUrl' = FALSE
  /\ layoutFile' = NoFile
  /\ error' = Null
  /\ currentScreen' = "welcome"
  /\ UNCHANGED <<uploadMode, comparisonPair, pendingRoomLabel, call, netVars, hostVars>>
  /\ UNCHANGED uploadVars

handleResultsCompare ==
  /\ currentScreen = "results"
  /\ uploadMode' = "comparison"
  /\ pendingRoomLabel' = Undefined
  /\ currentScreen' = "comparisonUpload"
  /\ UNCHANGED <<companies, layoutFile, layoutImageUrl, runs, error, comparisonPair,
                 call, netVars, hostVars>>
  /\ UNCHANGED uploadVars

\* ResultsScreen.tsx line 219: the button is rendered while remainingCompanies.length > 0
handleUploadMoreBooths ==
  /\ currentScreen = "results"
  /\ Len(remainingCompanies) > 0
  /\ uploadMode' = "overflow"
  /\ pendingRoomLabel' = pickRoomLabel(Len(placementRuns))
  /\ currentScreen' = "comparisonUpload"
  /\ UNCHANGED <<companies, layoutFile, layoutImageUrl, runs, error, comparisonPair,
                 call, netVars, hostVars>>
  /\ UNCHANGED uploadVars

\* mutant: an overflow submission is sent with the full list
CompanyPool_FullList == companies

\* App.tsx line 123
CompanyPool == IF uploadMode = "overflow" THEN remainingCompanies ELSE companies

handleComparisonUploadNext(B) ==
  /\ currentScreen = "comparisonUpload"
  /\ \E file \in B.layoutFiles :
       IF Len(CompanyPool) = 0
       THEN /\ error' = "No companies left to place."
            /\ currentScreen' = "results"
            /\ UNCHANGED <<call, netVars>>
       ELSE StartOptimization(B, uploadMode, file, CompanyPool, pendingRoomLabel)
  /\ UNCHANGED <<companies, layoutFile, layoutImageUrl, runs, uploadMode,
                 comparisonPair, pendingRoomLabel, hostVars>>
  /\ UNCHANGED uploadVars

handleComparisonUploadBack ==
  /\ currentScreen = "comparisonUpload"
  /\ currentScreen' = "results"
  /\ UNCHANGED <<companies, layoutFile, layoutImageUrl, runs, error, uploadMode,
                 comparisonPair, pendingRoomLabel, call, netVars, hostVars>>
  /\ UNCHANGED uploadVars

handleComparisonResultsBack ==
  /\ currentScreen = "comparisonResults"
  /\ currentScreen' = "results"
  /\ UNCHANGED <<companies, layoutFile, layoutImageUrl, runs, error, uploadMode,
                 comparisonPair, pendingRoomLabel, call, netVars, hostVars>>
  /\ UNCHANGED uploadVars

\* App.tsx lines 78-86, the updater of setRuns: the run as stored, and the
\* registry and comparison pair after it
StoredRun(prev, run, mode, roomLabel) ==
  LET placements == PlacementRunsOf(prev)
      inferredLabel == IF roomLabel # Undefined THEN roomLabel
                       ELSE IF mode = "comparison" THEN "Comparison"
                       ELSE pickRoomLabel(Len(placements))
  IN  [run EXCEPT !.mode = mode, !.roomLabel = inferredLabel]

\* mutant: the new run is put in front of the registry
AppendRun_Prepend(prev, nextRun) ==
  LET updated == <<nextRun>> \o prev
  IN  [runs |-> updated, comparisonPair |-> selectComparisonPair(updated)]

\* mutant: the pair is selected from the registry as it was before the append
AppendRun_StalePair(prev, nextRun) ==
  [runs |-> Append(prev, nextRun), comparisonPair |-> selectComparisonPair(prev)]

AppendRun(prev, nextRun) ==
  LET updated == Append(prev, nextRun)
  IN  [runs |-> updated, comparisonPair |-> selectComparisonPair(updated)]

\* optimizerClient.ts lines 27-31: the message of the Error thrown for a
\* response that is not ok (detail?.error || `... status ${res.status}`)
FailureReason(r) ==
  IF Truthy(r.error) THEN r.error
  ELSE "Optimizer request failed with status " \o ToString(r.status)

\* mutant: the catch block records the failed attempt as a placeholder run
OptimizationFailed_Placeholder(message) ==
  /\ error' = message
  /\ currentScreen' = "results"
  /\ call' = NoCall
  /\ runs' = Append(runs, [NoRun EXCEPT !.mode = call.mode])
  /\ UNCHANGED <<companies, layoutFile, layoutImageUrl, uploadMode,
                 comparisonPair, pendingRoomLabel>>

\* App.tsx lines 88-91
OptimizationFailed(message) ==
  /\ error' = message
  /\ currentScreen' = "results"
  /\ call' = NoCall
  /\ UNCHANGED <<companies, layoutFile, layoutImageUrl, runs, uploadMode,
                 comparisonPair, pendingRoomLabel>>

\* the response arrives: optimizeLayout lines 27-34, startOptimization lines 78-91
OptimizeResolved ==
  /\ origin = "app"
  /\ srvPc = "responded"
  /\ IF resp.status \in 200..299
     THEN LET after == AppendRun(runs, StoredRun(runs, resp.run, call.mode, call.roomLabel))
          IN  /\ runs' = after.runs
              /\ comparisonPair' = after.comparisonPair
              /\ currentScreen' = IF call.mode = "comparison" THEN "comparisonResults"
                                  ELSE "results"
              /\ call' = NoCall
              /\ UNCHANGED <<companies, layoutFile, layoutImageUrl, error, uploadMode,
                             pendingRoomLabel>>
     ELSE OptimizationFailed(FailureReason(resp))
  /\ srvPc' = "idle"
  /\ origin' = "none"
  /\ req' = NoForm
  /\ resp' = NoResp
  /\ workDir' = 0
  /\ workFiles' = {}
  /\ proc' = NoProc
  /\ docRead' = FALSE
  /\ spawned' = NoArgs
  /\ UNCHANGED <<dirSeq, fsDirs, uuidSeq>>
  /\ UNCHANGED uploadVars

\* fetch rejects (the request never reaches the handler, or its response is
\* lost): startOptimization's catch, with the TypeError's message
FetchFailed ==
  /\ origin = "app"
  /\ srvPc \in {"request", "responded"}
  /\ OptimizationFailed("Failed to fetch")
  /\ srvPc' = "idle"
  /\ origin' = "none"
  /\ req' = NoForm
  /\ resp' = NoResp
  /\ workDir' = 0
  /\ workFiles' = {}
  /\ proc' = NoProc
  /\ docRead' = FALSE
  /\ spawned' = NoArgs
  /\ UNCHANGED <<dirSeq, fsDirs, uuidSeq>>
  /\ UNCHANGED uploadVars

\* CompanyUploadScreen handleFileChange (lines 344-350) and
\* parseCompaniesFromFile up to its await of file.arrayBuffer() (301-305)
parseCompaniesFromFile(B) ==
  /\ currentScreen = "companyUpload"
  /\ ~isParsing
  /\ Len(parses) < MaxParses
  /\ \E sheet \in B.sheets : parses' = Append(parses, Parse(sheet, layoutFile))
  /\ UNCHANGED <<currentScreen, companies, layoutFile, layoutImageUrl, runs, error,
                 uploadMode, comparisonPair, pendingRoomLabel, call, queued,
                 netVars, hostVars>>

\* parseCompaniesFromFile after its await (lines 305-341): the workbook cannot
\* be read or its first column holds no name, and the catch keeps the error in
\* the screen; or onNext is called with the unique names:
\* handleCompanyUploadNext (App.tsx 94-102) with the layoutFile of its render,
\* then startOptimization up to its await and optimizeLayout up to its fetch.
\* A request sent while another is with the handler is on its way until the
\* handler is free.
parseCompaniesResolved(B) ==
  \E i \in DOMAIN parses :
     LET p == parses[i]
         names == uniqueNames(p.sheet.rows)
         c == [mode |-> "primary", file |-> p.file, companies |-> names,
               roomLabel |-> pickRoomLabel(0)]
     IN  /\ dirSeq + Len(queued) < B.maxExec
         /\ IF ~p.sheet.readable \/ Len(names) = 0
            THEN /\ parses' = RemoveAt(parses, i)
                 /\ UNCHANGED <<currentScreen, companies, error, call, queued, netVars>>
            ELSE IF p.file = NoFile
            THEN /\ parses' = Unmount(RemoveAt(parses, i))
                 /\ error' = "Upload a layout before continuing."
                 /\ currentScreen' = "instructions"
                 /\ UNCHANGED <<companies, call, queued, netVars>>
            ELSE /\ parses' = Unmount(RemoveAt(parses, i))
                 /\ companies' = names
                 /\ error' = Null
                 /\ currentScreen' = "loading"
                 /\ IF call = NoCall /\ srvPc = "idle" /\ queued = <<>>
                    THEN /\ call' = c
                         /\ req' = OptimizeForm(c)
                         /\ origin' = "app"
                         /\ srvPc' = "request"
                         /\ resp' = NoResp
                         /\ UNCHANGED queued
                    ELSE /\ queued' = Append(queued, c)
                         /\ UNCHANGED <<call, netVars>>
         /\ UNCHANGED <<layoutFile, layoutImageUrl, runs, uploadMode, comparisonPair,
                        pendingRoomLabel, hostVars>>

\* the request of a call that was on its way reaches the handler
QueuedRequestArrives(B) ==
  /\ queued # <<>>
  /\ call = NoCall
  /\ srvPc = "idle"
  /\ dirSeq < B.maxExec
  /\ call' = Head(queued)
  /\ queued' = Tail(queued)
  /\ req' = OptimizeForm(Head(queued))
  /\ origin' = "app"
  /\ srvPc' = "request"
  /\ resp' = NoResp
  /\ UNCHANGED <<currentScreen, companies, layoutFile, layoutImageUrl, runs, error,
                 uploadMode, comparisonPair, pendingRoomLabel, parses, hostVars>>

(***************************************************************************)
(* The request handler: part_000 POST                                      *)
(***************************************************************************)
ErrorResponse(status, message) ==
  [NoResp EXCEPT !.status = status, !.error = message]

\* lines 97-127: the validation of the form; ok with the company list, or the
\* response that ends the request
ValidateRequest(f) ==
  LET accept(isArray, items) ==
        IF ~isArray \/ Len(items) = 0
        THEN [ok |-> FALSE, companies |-> <<>>,
              resp |-> ErrorResponse(400, "Company list cannot be empty.")]
        ELSE [ok |-> TRUE, companies |-> items, resp |-> NoResp]
      reject(status, message) ==
        [ok |-> FALSE, companies |-> <<>>, resp |-> ErrorResponse(status, message)]
  IN  IF f.layout = NoFile THEN reject(400, "Layout file is required.")
      ELSE IF f.companies.tag # "absent"
      THEN IF f.companies.tag = "badjson"
           THEN reject(400, "Invalid companies payload.")
           ELSE accept(f.companies.isArray, f.companies.items)
      ELSE IF f.companiesFile.present
      THEN IF ~f.companiesFile.readable
           THEN reject(500, "File is password-protected")
           ELSE accept(TRUE, FirstColumn(f.companiesFile.rows))
      ELSE reject(400, "Company list is required (JSON or Excel file).")

\* a file of a directory: its name and what was written to it (kind: whose
\* bytes it holds; doc: those bytes read as a result document, a layout's
\* being those of a document that assigns nothing)
File(name, kind, doc) == [name |-> name, kind |-> kind, doc |-> doc]
NoDoc == [tag |-> "none", min_distance |-> 0, typical_spacing |-> AbsentSpacing,
          assignments |-> <<>>, unplaced_companies |-> <<>>]
\* the content of companies.json: JSON.stringify(companies) (line 136)
CompaniesDoc(companyList) == [tag |-> "companies", items |-> companyList]
\* fs.writeFile: creates the file or replaces its content
WriteFile(files, name, kind, doc) ==
  {f \in files : f.name # name} \cup {File(name, kind, doc)}
HasFile(files, name) == \E f \in files : f.name = name
FileAt(files, name) == CHOOSE f \in files : f.name = name

\* line 138: /\.(xlsx|xls|csv)$/i.test(layout.name)
LowerCase(ext) ==
  CASE ext = "XLSX" -> "xlsx"
    [] ext = "XLS" -> "xls"
    [] ext = "Csv" -> "csv"
    [] OTHER -> ext
\* mutant: the test without its i flag
isSpreadsheet_CaseSensitive(name) == name.ext \in {"xlsx", "xls", "csv"}

isSpreadsheet(name) == LowerCase(name.ext) \in {"xlsx", "xls", "csv"}

\* lines 129-166: the arguments of the job; a path is <<directory, file name>>
ScriptArgs(f, companyList, dir) ==
  [script |-> IF isSpreadsheet(f.layout) THEN "main.py" ELSE "run_from_image.py",
   layoutFlag |-> IF isSpreadsheet(f.layout) THEN "--layout-file" ELSE "--image",
   layoutPath |-> <<dir, f.layout>>,
   companiesJsonPath |-> <<dir, CompaniesJson>>,
   maxCompanies |-> Len(companyList),
   plotPath |-> <<dir, PlotPng>>,
   jsonOutPath |-> <<dir, ResultJson>>]

\* lines 94-95
FormMode(f) == IF f.mode = Absent THEN "primary" ELSE f.mode
FormRoomLabel(f) == IF Truthy(f.roomLabel) THEN f.roomLabel ELSE Undefined

\* the handler up to its await of the job (lines 88-168)
SrvReceive(B) ==
  /\ srvPc = "request"
  /\ LET v == ValidateRequest(req)
     IN  IF ~v.ok
         THEN /\ resp' = v.resp
              /\ srvPc' = "responded"
              /\ UNCHANGED <<dirSeq, fsDirs, workDir, workFiles, spawned>>
         ELSE \E io \in B.ioFaults :
                IF io = "mkdtemp"
                THEN /\ resp' = ErrorResponse(500, "ENOSPC: no space left on device, mkdtemp")
                     /\ srvPc' = "responded"
                     /\ UNCHANGED <<dirSeq, fsDirs, workDir, workFiles, spawned>>
                ELSE /\ dirSeq' = dirSeq + 1
                     /\ fsDirs' = fsDirs \cup {dirSeq + 1}
                     /\ workDir' = dirSeq + 1
                     /\ IF io = "write"
                        THEN /\ workFiles' = {}
                             /\ resp' = ErrorResponse(500, "ENOSPC: no space left on device, write")
                             /\ srvPc' = "responded"
                             /\ spawned' = NoArgs
                        ELSE /\ workFiles' =
                                  WriteFile(WriteFile({}, req.layout, "layout", NoDoc),
                                            CompaniesJson, "companies", CompaniesDoc(v.companies))
                             /\ resp' = NoResp
                             /\ srvPc' = "running"
                             /\ spawned' = ScriptArgs(req, v.companies, dirSeq + 1)
  /\ UNCHANGED <<appVars, origin, req, proc, docRead, uuidSeq>>

\* the document {}: JSON.parse accepts it, every field read from it is
\* undefined (an undefined array is written as the empty sequence)
FieldlessDoc == [NoDoc EXCEPT !.tag = "fieldless", !.min_distance = UndefinedDistance]

\* the result documents a job can leave for a company list: none, one that is
\* not JSON, one without fields, or one that places the first k companies
JobDocs(B, companyList) ==
  {IF t = "fieldless" THEN FieldlessDoc ELSE [NoDoc EXCEPT !.tag = t] : t \in B.badDocs} \cup
  {[tag |-> "doc", min_distance |-> m[1], typical_spacing |-> m[2],
    assignments |-> SubSeq(companyList, 1, k),
    unplaced_companies |-> SubSeq(companyList, k + 1, Len(companyList))] :
     m \in B.metrics, k \in B.placeCounts \cap (0..Len(companyList))}

\* part_000 buildResponsePayload. plotUrl is the data URL of the bytes found at
\* plotPath, written here as the kind of the file they belong to, or undefined
\* when there is no file at that path
buildResponsePayload(payload, files, id, mode, roomLabel) ==
  [id |-> id,
   mode |-> mode,
   roomLabel |-> roomLabel,
   minDistance |-> payload.min_distance,
   typicalSpacing |-> payload.typical_spacing,
   score |-> scoreFromDistance(payload.min_distance, payload.typical_spacing),
   assignments |-> payload.assignments,
   unplacedCompanies |-> payload.unplaced_companies,
   plotUrl |-> IF HasFile(files, PlotPng) THEN FileAt(files, PlotPng).kind ELSE Undefined]

\* lines 52-54: resolve({ stdout, stderr, code: code ?? 0 })
CloseCode(code) == IF code = NullCode THEN 0 ELSE code

\* mutant: the exit status is not checked before the result document is read
AfterJob_TrustsDocument(f, files, code, stdout, stderr, id) ==
  IF ~HasFile(files, ResultJson)
  THEN [read |-> TRUE, built |-> FALSE,
        resp |-> ErrorResponse(500, "ENOENT: no such file or directory, open result.json")]
  ELSE IF FileAt(files, ResultJson).doc.tag = "unparsable"
  THEN [read |-> TRUE, built |-> FALSE,
        resp |-> ErrorResponse(500, "Unexpected token in JSON at position 0")]
  ELSE [read |-> TRUE, built |-> TRUE,
        resp |-> [NoResp EXCEPT
                    !.status = 200,
                    !.run = buildResponsePayload(FileAt(files, ResultJson).doc, files, id,
                                                 FormMode(f), FormRoomLabel(f)),
                    !.stdout = stdout,
                    !.stderr = stderr]]

\* lines 168-184: the handler after the job closed with `code`, with `files`
\* in the working directory. read says whether the result document was read.
AfterJob(f, files, code, stdout, stderr, id) ==
  IF CloseCode(code) # 0
  THEN [read |-> FALSE, built |-> FALSE,
        resp |-> [ErrorResponse(500, "Optimizer failed") EXCEPT
                    !.detail = IF stderr # "" THEN stderr ELSE stdout,
                    !.code = CloseCode(code)]]
  ELSE IF ~HasFile(files, ResultJson)
  THEN [read |-> TRUE, built |-> FALSE,
        resp |-> ErrorResponse(500, "ENOENT: no such file or directory, open result.json")]
  ELSE IF FileAt(files, ResultJson).doc.tag = "unparsable"
  THEN [read |-> TRUE, built |-> FALSE,
        resp |-> ErrorResponse(500, "Unexpected token in JSON at position 0")]
  ELSE [read |-> TRUE, built |-> TRUE,
        resp |-> [NoResp EXCEPT
                    !.status = 200,
                    !.run = buildResponsePayload(FileAt(files, ResultJson).doc, files, id,
                                                 FormMode(f), FormRoomLabel(f)),
                    !.stdout = stdout,
                    !.stderr = stderr]]

\* the job closes: it has written its outputs; the handler goes on to its
\* response (lines 52-54, 168-184)
SrvJobClose(B) ==
  /\ srvPc = "running"
  /\ \E code \in B.exitCodes, stdout \in B.stdouts, stderr \in B.stderrs,
        doc \in JobDocs(B, ValidateRequest(req).companies), plot \in B.plots :
       LET withDoc == IF doc.tag = "missing" THEN workFiles
                      ELSE WriteFile(workFiles, ResultJson, "result", doc)
           files == IF plot THEN WriteFile(withDoc, PlotPng, "plot", NoDoc) ELSE withDoc
           out == AfterJob(req, files, code, stdout, stderr, uuidSeq + 1)
       IN  /\ workFiles' = files
           /\ proc' = [code |-> code, stdout |-> stdout, stderr |-> stderr]
           /\ docRead' = out.read
           /\ uuidSeq' = IF out.built THEN uuidSeq + 1 ELSE uuidSeq
           /\ resp' = out.resp
  /\ srvPc' = "responded"
  /\ UNCHANGED <<appVars, origin, req, dirSeq, fsDirs, workDir, spawned>>

\* lines 55, 181-183: python3 cannot be spawned; runPython rejects
SrvSpawnError ==
  /\ srvPc = "running"
  /\ resp' = ErrorResponse(500, "spawn python3 ENOENT")
  /\ srvPc' = "responded"
  /\ UNCHANGED <<appVars, origin, req, hostVars>>

(***************************************************************************)
(* Another caller of the route                                             *)
(***************************************************************************)
DirectRequest(B) ==
  /\ srvPc = "idle"
  /\ dirSeq < B.maxExec
  /\ \E f \in B.forms : req' = f
  /\ origin' = "direct"
  /\ srvPc' = "request"
  /\ resp' = NoResp
  /\ UNCHANGED <<appVars, hostVars>>

DirectResponse ==
  /\ origin = "direct"
  /\ srvPc = "responded"
  /\ srvPc' = "idle"
  /\ origin' = "none"
  /\ req' = NoForm
  /\ resp' = NoResp
  /\ workDir' = 0
  /\ workFiles' = {}
  /\ proc' = NoProc
  /\ docRead' = FALSE
  /\ spawned' = NoArgs
  /\ UNCHANGED <<appVars, dirSeq, fsDirs, uuidSeq>>

(***************************************************************************)
(* Specifications                                                          *)
(***************************************************************************)
Init ==
  /\ currentScreen = "welcome"
  /\ companies = <<>>
  /\ layoutFile = NoFile
  /\ layoutImageUrl = FALSE
  /\ runs = <<>>
  /\ error = Null
  /\ uploadMode = "comparison"
  /\ comparisonPair = <<>>
  /\ pendingRoomLabel = Undefined
  /\ call = NoCall
  /\ queued = <<>>
  /\ parses = <<>>
  /\ srvPc = "idle"
  /\ origin = "none"
  /\ req = NoForm
  /\ resp = NoResp
  /\ dirSeq = 0
  /\ fsDirs = {}
  /\ workDir = 0
  /\ workFiles = {}
  /\ proc = NoProc
  /\ docRead = FALSE
  /\ uuidSeq = 0
  /\ spawned = NoArgs

Server(B) ==
  \/ SrvReceive(B)
  \/ SrvJobClose(B)
  \/ SrvSpawnError

Session(B) ==
  \/ handleWelcomeNext
  \/ handleInstructionsNext(B)
  \/ handleCompanyUploadBack
  \/ handleCompanyUploadNext(B)
  \/ handleResultsBack
  \/ handleResultsCompare
  \/ handleUploadMoreBooths
  \/ handleComparisonUploadNext(B)
  \/ handleComparisonUploadBack
  \/ handleComparisonResultsBack
  \/ OptimizeResolved
  \/ FetchFailed

\* one session of the application against the route
Next == Session(WideInputs) \/ Server(WideInputs)
Spec == Init /\ [][Next]_vars

\* sessions whose jobs differ in their score only, one execution longer
PairInputs == [WideInputs EXCEPT !.maxExec = PairMaxExecutions, !.placeCounts = {1},
                                 !.layoutFiles = {FileName("hall", "png")},
                                 !.companyLists = {<<"A", "B", "C", "D">>},
                                 !.badDocs = {"missing"},
                                 !.stderrs = {"Traceback"}, !.ioFaults = {"none"}]
PairNext == Session(PairInputs) \/ Server(PairInputs)
PairSpec == Init /\ [][PairNext]_vars

\* long sessions whose jobs place nothing, so that every run leaves companies
\* for another room
LabelInputs == [PairInputs EXCEPT !.maxExec = LabelMaxExecutions, !.placeCounts = {0},
                                  !.metrics = {<<90, AbsentSpacing>>}]
LabelNext == Session(LabelInputs) \/ Server(LabelInputs)
LabelSpec == Init /\ [][LabelNext]_vars

\* sessions in which the company file is read while the user goes on
UploadInputs == [PairInputs EXCEPT !.maxExec = MaxExecutions]
UploadNext ==
  \/ Session(UploadInputs)
  \/ Server(UploadInputs)
  \/ parseCompaniesFromFile(UploadInputs)
  \/ parseCompaniesResolved(UploadInputs)
  \/ QueuedRequestArrives(UploadInputs)
UploadSpec == Init /\ [][UploadNext]_vars

\* the same sessions when every request completes or fails: the handler goes
\* on to its response, the response (or fetch's rejection) reaches
\* startOptimization, and a request on its way reaches the handler
UploadFairness ==
  /\ WF_vars(Server(UploadInputs))
  /\ WF_vars(OptimizeResolved \/ FetchFailed)
  /\ WF_vars(QueuedRequestArrives(UploadInputs))
UploadFairSpec == UploadSpec /\ UploadFairness

\* the route alone, called with any form
ServerInputs == [WideInputs EXCEPT !.plots = BOOLEAN, !.stdouts = StdoutTexts,
                                   !.exitCodes = ExitCodes, !.badDocs = UnusableDocs]
ServerNext == DirectRequest(ServerInputs) \/ DirectResponse \/ Server(ServerInputs)
ServerSpec == Init /\ [][ServerNext]_vars

\* the route called with one form, its jobs exiting 0 with result documents of
\* every min_distance and typical_spacing up to the bounds
ScoredMetrics ==
  {<<d, t>> : d \in 0..MaxDistance, t \in {AbsentSpacing} \cup (0..MaxSpacing)}
ScoreInputs == [ServerInputs EXCEPT
                  !.metrics = ScoredMetrics, !.placeCounts = {2},
                  !.badDocs = {"missing"}, !.exitCodes = {0},
                  !.stdouts = {"placed"}, !.stderrs = {""}, !.plots = {TRUE},
                  !.ioFaults = {"none"},
                  !.forms = {[NoForm EXCEPT
                                !.layout = FileName("hall", "png"),
                                !.companies = [tag |-> "json", isArray |-> TRUE,
                                               items |-> <<"A", "B">>]]}]
ScoreNext == DirectRequest(ScoreInputs) \/ DirectResponse \/ Server(ScoreInputs)
ScoreSpec == Init /\ [][ScoreNext]_vars

\* the route called with layout files of many names: spreadsheet extensions
\* in both letter cases, other extensions, no extension, and a spreadsheet
\* extension that is not at the end of the name
DispatchLayouts ==
  {FileName("gym", e) : e \in {"xlsx", "XLSX", "xls", "XLS", "csv", "Csv",
                               "png", "pdf", "xlsm", "json", ""}} \cup
  {FileName("xlsx", ""), FileName("plan.xlsx", "png"), FileName("", "csv")}
DispatchForms ==
  [layout : DispatchLayouts,
   companies : {[tag |-> "absent", isArray |-> FALSE, items |-> <<>>],
                [tag |-> "json", isArray |-> TRUE, items |-> <<"A", "B">>]},
   companiesFile : {NoSheet} \cup {sh \in Sheets : sh.rows # <<>>},
   mode : {Absent},
   roomLabel : {Absent}]
DispatchInputs == [ServerInputs EXCEPT
                     !.forms = DispatchForms, !.metrics = {<<50, 40>>},
                     !.placeCounts = {1}, !.badDocs = {"missing"},
                     !.stdouts = {"placed"}, !.stderrs = {""}, !.plots = {TRUE},
                     !.exitCodes = {0, 1}, !.ioFaults = {"none"}]
DispatchNext == DirectRequest(DispatchInputs) \/ DirectResponse \/ Server(DispatchInputs)
DispatchSpec == Init /\ [][DispatchNext]_vars

\* the route called with layout files that carry the names the handler gives
\* to its own files, their jobs leaving a plot and a result document or not
PathLayouts == {FileName("hall", "png"), PlotPng, ResultJson, CompaniesJson}
PathForms ==
  [layout : PathLayouts,
   companies : {[tag |-> "json", isArray |-> TRUE, items |-> <<"A", "B">>]},
   companiesFile : {NoSheet},
   mode : {Absent, "overflow"},
   roomLabel : {Absent, "Hall 1"}]
PathInputs == [ServerInputs EXCEPT
                 !.forms = PathForms, !.metrics = {<<50, 40>>},
                 !.placeCounts = {1}, !.badDocs = {"missing"},
                 !.stdouts = {"placed"}, !.stderrs = {""}, !.plots = BOOLEAN,
                 !.exitCodes = {0, 1}, !.ioFaults = {"none"}]
PathNext == DirectRequest(PathInputs) \/ DirectResponse \/ Server(PathInputs)
PathSpec == Init /\ [][PathNext]_vars

(***************************************************************************)
(* Properties                                                              *)
(***************************************************************************)
IsPrefix(s, t) == Len(s) <= Len(t) /\ SubSeq(t, 1, Len(s)) = s
\* a step in which the awaited submission ends in startOptimization's catch
FailedSubmissionStep == call # NoCall /\ call' = NoCall /\ error' # Null
\* a step in which the awaited submission ends with its run appended
SucceededSubmissionStep == call # NoCall /\ call' = NoCall /\ error' = Null
\* the step of handleResultsBack
ResetStep == currentScreen = "results" /\ currentScreen' = "welcome"

C2_AppendOnly ==
  [][/\ ~ResetStep => IsPrefix(runs, runs')
     /\ SucceededSubmissionStep => /\ Len(runs') = Len(runs) + 1
                                   /\ IsPrefix(runs, runs')]_vars

\* C2 witness: two runs in the registry, in the order of their submissions
C2_Witness ==
  /\ Len(runs) = 2
  /\ runs[1].id < runs[2].id
  /\ call = NoCall

\* the companies some primary or overflow run of the registry assigns
AssignedInPlacementRuns ==
  {c \in Range(companies) :
     \E i \in 1..Len(runs) :
        /\ runs[i].mode \in {"primary", "overflow"}
        /\ \E j \in 1..Len(runs[i].assignments) : runs[i].assignments[j] = c}

\* C3: the remaining-entities view is the requested list minus the entities
\* assigned in the non-comparison runs of the registry; what a comparison run
\* assigns stays in the view.
C3_RemainingIsDifference ==
  /\ Range(remainingCompanies) = Range(companies) \ AssignedInPlacementRuns
  /\ \A c \in Range(companies) :
       (\A i \in 1..Len(runs) :
           c \in Range(runs[i].assignments) => runs[i].mode = "comparison")
       => c \in Range(remainingCompanies)

\* C3 witness: request A,B,C,D, two placement runs that together assign A,B,C
C3_Witness ==
  /\ companies = <<"A", "B", "C", "D">>
  /\ Len(runs) = 2
  /\ runs[1].mode = "primary" /\ runs[2].mode = "overflow"
  /\ Range(runs[1].assignments) \cup Range(runs[2].assignments) = {"A", "B", "C"}
  /\ remainingCompanies = <<"D">>

\* run i of the list ranks before run j: higher score, or equal score and
\* submitted earlier
RanksBefore(list, i, j) ==
  \/ list[i].score > list[j].score
  \/ list[i].score = list[j].score /\ i < j

\* pair holds the two best-ranked runs of the list (the only run, or none,
\* when the list is shorter), the better first
IsTopTwoOf(list, pair) ==
  /\ Len(pair) = IF Len(list) < 2 THEN Len(list) ELSE 2
  /\ Len(pair) >= 1 =>
       \E i \in 1..Len(list) :
          /\ pair[1] = list[i]
          /\ \A k \in 1..Len(list) : k # i => RanksBefore(list, i, k)
          /\ Len(pair) = 2 =>
               \E j \in (1..Len(list)) \ {i} :
                  /\ pair[2] = list[j]
                  /\ \A k \in (1..Len(list)) \ {i, j} : RanksBefore(list, j, k)

\* ComparisonResultsScreen.tsx lines 33-34: [best, second] of the sorted runs
ComparisonScreenOrder(pair) == SortByScore(pair)

\* mutant: the screen lays out [best, second] without the test of runs.length
ComparisonResultsView_NoGuard(pair) ==
  LET sorted == ComparisonScreenOrder(pair)
  IN  [state |-> "compare",
       shown |-> [i \in 1..2 |-> IF i <= Len(sorted) THEN sorted[i] ELSE NoRun]]

\* ComparisonResultsScreen.tsx lines 18-36: what the screen shows for the runs
\* it is given
ComparisonResultsView(pair) ==
  LET sorted == ComparisonScreenOrder(pair)
  IN  IF Len(pair) < 2
      THEN [state |-> "needAnother", shown |-> <<>>]
      ELSE [state |-> "compare", shown |-> <<sorted[1], sorted[2]>>]

\* C4: selectComparisonPair returns the two best runs of the whole registry by
\* score, ties broken by submission order, and the comparison results screen's
\* own sort keeps the pair it is given in that order.
C4_PairIsTopTwo ==
  /\ IsTopTwoOf(runs, selectComparisonPair(runs))
  /\ ComparisonScreenOrder(selectComparisonPair(runs)) = selectComparisonPair(runs)
  /\ currentScreen = "comparisonResults" =>
       /\ IsTopTwoOf(runs, comparisonPair)
       /\ ComparisonScreenOrder(comparisonPair) = comparisonPair

\* C4 witness: scores 0.9, 0.9, 0.5 in submission order; the pair shown is the
\* first two runs in that order
C4_Witness ==
  /\ currentScreen = "comparisonResults"
  /\ Len(runs) = 3
  /\ runs[1].score = 900 /\ runs[2].score = 900 /\ runs[3].score = 500
  /\ comparisonPair = <<runs[1], runs[2]>>

\* C5: in the step that appends a run, the stored comparison pair becomes the
\* pair selected from the registry that contains the new run, and the remaining
\* view of the next render no longer holds what the new placement run assigned.
C5_ViewsFollowAppend ==
  [][Len(runs') = Len(runs) + 1 =>
       LET new == runs'[Len(runs')]
       IN  /\ comparisonPair' = selectComparisonPair(runs')
           /\ new.mode # "comparison" =>
                Range(remainingCompanies') \cap Range(new.assignments) = {}]_vars

\* C5 witness: the run just appended is better than the first one and is in
\* the pair shown
C5_Witness ==
  /\ currentScreen = "comparisonResults"
  /\ Len(runs) = 2
  /\ runs[2].score > runs[1].score
  /\ comparisonPair = <<runs[2], runs[1]>>

\* the label of the k-th placement run (k from 1)
ExpectedLabel(k) ==
  CASE k = 1 -> "Room A"
    [] k = 2 -> "Room B"
    [] k = 3 -> "Room C"
    [] k = 4 -> "Room D"
    [] OTHER -> "Room " \o ToString(k)

\* how many of the first i runs of the registry satisfy Test
CountUpTo(i, Test(_)) == Cardinality({k \in 1..i : Test(runs[k])})
IsPlacement(r) == r.mode # "comparison"
IsOverflow(r) == r.mode = "overflow"

\* C6 as stated: the first primary run is labelled Room A and the fifth overflow
\* run of the registry is labelled Room 5.
C6_FifthOverflowIsRoom5 ==
  \A i \in 1..Len(runs) :
     /\ (runs[i].mode = "primary" /\ CountUpTo(i, IsPlacement) = 1)
          => runs[i].roomLabel = "Room A"
     /\ (runs[i].mode = "overflow" /\ CountUpTo(i, IsOverflow) = 5)
          => runs[i].roomLabel = "Room 5"

\* the step of handleUploadMoreBooths
OverflowUploadOpened ==
  currentScreen = "results" /\ currentScreen' = "comparisonUpload" /\ uploadMode' = "overflow"

\* C6 amended: the run a step appends carries the label its submission
\* supplied; a primary submission supplies Room A; an overflow submission
\* supplies the label computed when its upload screen was opened, from the
\* number n of placement runs then in the registry: Room A, B, C, D for n up
\* to 3 and "Room n+1" from there on, so Room 5 with four placement runs in the
\* registry and Room 6 with five (a primary run and four overflow runs).
C6_LabelByPlacementPosition ==
  [][/\ Len(runs') = Len(runs) + 1 =>
          LET new == runs'[Len(runs')]
          IN  /\ call.roomLabel # Undefined => new.roomLabel = call.roomLabel
              /\ new.mode = "primary" => new.roomLabel = "Room A"
              /\ new.mode = "overflow" => new.roomLabel = call.roomLabel
     /\ OverflowUploadOpened =>
          /\ pendingRoomLabel' = ExpectedLabel(Len(placementRuns) + 1)
          /\ Len(placementRuns) = 4 => pendingRoomLabel' = "Room 5"
          /\ Len(placementRuns) = 5 => pendingRoomLabel' = "Room 6"
     /\ (call' # call /\ call'.mode = "overflow") => call'.roomLabel = pendingRoomLabel]_vars

\* C6 witness: a primary run and five overflow runs; the fifth overflow run is
\* the sixth room
C6_Witness ==
  /\ Len(runs) = 6
  /\ runs[1].mode = "primary" /\ runs[1].roomLabel = "Room A"
  /\ \A i \in 2..6 : runs[i].mode = "overflow"
  /\ runs[5].roomLabel = "Room 5"
  /\ runs[6].roomLabel = "Room 6"

\* C7 as stated: an overflow submission is under way only when the registry
\* holds a primary run and companies remain, and the first placement run of the
\* registry is a primary run.
C7_OverflowOnlyAfterPrimary ==
  /\ call.mode = "overflow" =>
       /\ \E i \in 1..Len(runs) : runs[i].mode = "primary"
       /\ Len(remainingCompanies) > 0
  /\ Len(placementRuns) > 0 => placementRuns[1].mode = "primary"

\* C8: an overflow submission is sent with the remaining-entities view, a
\* comparison submission with the full requested list, and no submission is
\* sent with an empty list; the form on its way to the handler holds that list.
C8_EntityPool ==
  call # NoCall =>
    /\ call.mode = "overflow" => call.companies = remainingCompanies
    /\ call.mode = "comparison" => call.companies = companies
    /\ Len(call.companies) > 0
    /\ origin = "app" =>
         /\ req.companies = [tag |-> "json", isArray |-> TRUE, items |-> call.companies]
         /\ req.mode = call.mode

\* C8 witness: the job of an overflow submission is running on fewer companies
\* than were requested
C8_Witness ==
  /\ call.mode = "overflow"
  /\ srvPc = "running"
  /\ Len(call.companies) < Len(companies)
  /\ req.companies.items = remainingCompanies

\* C9 as stated: when the handler has answered, the working directory it
\* provisioned and the files in it are gone.
C9_WorkDirDeleted ==
  (srvPc = "responded" /\ workDir # 0) =>
     /\ workDir \notin fsDirs
     /\ workFiles = {}

\* C10: when the job closed with a non-zero status, the answer is the failure
\* "Optimizer failed" with the error stream (the output stream when the error
\* stream is empty) and the status; the result document was not read and the
\* answer holds no run.
C10_NonZeroExit ==
  (srvPc = "responded" /\ proc # NoProc /\ proc.code # 0 /\ proc.code # NullCode) =>
     /\ resp.status = 500
     /\ resp.error = "Optimizer failed"
     /\ resp.detail = (IF proc.stderr = "" THEN proc.stdout ELSE proc.stderr)
     /\ resp.code = proc.code
     /\ ~docRead
     /\ resp.run = NoRun

\* C10 witness: the job exited 1 with an empty error stream and left a well
\* formed result document
C10_Witness ==
  /\ srvPc = "responded"
  /\ proc.code = 1 /\ proc.stderr = "" /\ proc.stdout = "placed"
  /\ HasFile(workFiles, ResultJson)
  /\ FileAt(workFiles, ResultJson).doc.tag = "doc"
  /\ resp.detail = "placed"

\* what a caller can tell a response by, other than the free text of its
\* message: the status and the fields of the body
ResponseFields(r) ==
  <<r.status,
    (IF r.error # Undefined THEN {"error"} ELSE {}) \cup
    (IF r.detail # Undefined THEN {"detail", "code"} ELSE {}) \cup
    (IF r.status = 200 THEN {"run", "stdout", "stderr"} ELSE {})>>

\* the result document the job left is missing, not JSON, or without fields
ResultDocumentUnusable ==
  \/ ~HasFile(workFiles, ResultJson)
  \/ FileAt(workFiles, ResultJson).doc.tag \in UnusableDocs

\* C11 as stated: when the job exited with status zero and the result document
\* is missing or malformed, the handler answers with an error and no run, and
\* the answer differs, in status or in the fields of its body, from the answer
\* to a job that exited non-zero and from the answer to an unexpected failure
\* such as a working directory that could not be created.
C11_ResultFailureIsDistinctError ==
  (srvPc = "responded" /\ proc # NoProc /\ proc.code = 0 /\ ResultDocumentUnusable) =>
     /\ resp.status # 200
     /\ resp.run = NoRun
     /\ resp.error # Undefined
     /\ ResponseFields(resp) # ResponseFields(AfterJob(req, workFiles, 1, "", "Traceback", 0).resp)
     /\ ResponseFields(resp) # ResponseFields(ErrorResponse(500, "ENOSPC: no space left on device, mkdtemp"))

\* a cell that holds a name: a number, or a string that is not white space only
HoldsName(cell) ==
  \/ cell.k = "num"
  \/ cell.k = "str" /\ \E i \in 1..Len(cell.s) : cell.s[i] # " "

\* the requests C12 lists: no layout file, no entity list, an entity list that
\* is empty or not a list, an entity-list document that cannot be read
InvalidRequest(f) ==
  \/ f.layout = NoFile
  \/ f.companies.tag = "badjson"
  \/ f.companies.tag = "json" /\ (~f.companies.isArray \/ f.companies.items = <<>>)
  \/ f.companies.tag = "absent" /\ ~f.companiesFile.present
  \/ /\ f.companies.tag = "absent"
     /\ f.companiesFile.present
     /\ \/ ~f.companiesFile.readable
        \/ \A i \in 1..Len(f.companiesFile.rows) : ~HoldsName(f.companiesFile.rows[i])

\* C12 as stated: a request of one of these kinds is answered with a validation
\* failure (a 400 response), no working directory was provisioned for it and
\* no job was started.
C12_ValidationStopsRequest ==
  (srvPc = "responded" /\ InvalidRequest(req)) =>
     /\ resp.status = 400
     /\ workDir = 0
     /\ workFiles = {}
     /\ proc = NoProc

\* C13: the score of a run built from a result document with min_distance
\* d >= 0 and typical_spacing t is clamp(d / baseline, 0, 1) rounded to three
\* decimals (it lies within 0.0005 of it), with baseline 2.5 * t when t is
\* present and positive and 10 when t is 0 or absent; it lies in [0, 1], is 0
\* for d = 0, and is 0.8 for d = 8.0 and t = 4.0.
\* With d, t in tenths and the score s in thousandths, d / baseline is
\* 2d / 5t or d / 100; the distance from s / 1000 to num / den is at most
\* 1 / 2000 when 2 * |s * den - 1000 * num| <= den.
C13_ScoreIsClampedRatio ==
  (srvPc = "responded" /\ resp.status = 200 /\ resp.run.minDistance >= 0) =>
     LET d == resp.run.minDistance
         t == resp.run.typicalSpacing
         s == resp.run.score
         present == t # AbsentSpacing /\ t > 0
         num == IF present THEN 2 * d ELSE d
         den == IF present THEN 5 * t ELSE 100
         top == IF num > den THEN den ELSE num
         gap == s * den - 1000 * top
     IN  /\ 0 <= s /\ s <= 1000
         /\ 2 * gap <= den /\ -2 * gap <= den
         /\ d = 0 => s = 0
         /\ num >= den => s = 1000
         /\ (d = 80 /\ t = 40) => s = 800

\* C13 witness: the run built from min_distance 8.0 and typical_spacing 4.0
\* has score 0.8
C13_Witness ==
  /\ srvPc = "responded"
  /\ resp.status = 200
  /\ resp.run.minDistance = 80
  /\ resp.run.typicalSpacing = 40
  /\ resp.run.score = 800

\* C15 as stated: when a submission fails on a response that carries the
\* job's diagnostic text (detail: the captured stderr, or stdout when stderr is
\* empty), the error shown is that text verbatim; in every failure some
\* message is shown.
C15_DiagnosticTextShown ==
  [][FailedSubmissionStep =>
       /\ error' # Undefined
       /\ (srvPc = "responded" /\ Truthy(resp.detail)) => error' = resp.detail]_vars

\* C16 as stated: the reset step leaves the session in the empty state: no
\* run in the registry, no requested company, no run in the stored comparison
\* pair, no layout file and no preview of it, no error.
C16_ResetIsTotal ==
  [][ResetStep =>
       /\ runs' = <<>>
       /\ companies' = <<>>
       /\ comparisonPair' = <<>>
       /\ layoutFile' = NoFile
       /\ layoutImageUrl' = FALSE
       /\ error' = Null]_vars

\* the entities of the request being handled, as the handler parsed them
RequestEntities == Range(ValidateRequest(req).companies)

\* C17 as stated: in a run the handler built from a job's result document, the
\* assigned entities together with the unplaced ones are the entities of the
\* request, and no entity is assigned twice.
C17_RunCoversRequest ==
  (srvPc = "responded" /\ resp.status = 200) =>
     LET run == resp.run
     IN  /\ Range(run.assignments) \cup Range(run.unplacedCompanies) = RequestEntities
         /\ \A i, j \in 1..Len(run.assignments) :
               run.assignments[i] = run.assignments[j] => i = j

\* C19 as stated: the result document is read and a run is built only when the
\* job closed with exit status 0; a job that closed without an exit status
\* (killed by a signal) or that could not be spawned yields no run.
C19_RunOnlyOnExitZero ==
  srvPc = "responded" =>
     /\ (proc # NoProc /\ proc.code # 0) => (~docRead /\ resp.status # 200 /\ resp.run = NoRun)
     /\ proc = NoProc => (~docRead /\ resp.status # 200 /\ resp.run = NoRun)

\* the spellings of the spreadsheet extensions among the layout names
SpreadsheetSpellings == {"xlsx", "XLSX", "xls", "XLS", "csv", "Csv"}
\* the number of entities of the request: the items of the JSON list, or the
\* cells of the sheet's first column that hold a name
EntityCount(f) ==
  IF f.companies.tag = "json" THEN Len(f.companies.items)
  ELSE Cardinality({i \in 1..Len(f.companiesFile.rows) : HoldsName(f.companiesFile.rows[i])})

\* C18: the job is spawned as the spreadsheet variant (main.py --layout-file)
\* exactly when the layout file's name ends in .xlsx, .xls or .csv in any
\* letter case, and as the image variant (run_from_image.py --image)
\* otherwise; either variant gets the layout's path, the path of
\* companies.json, the number of entities of the request as --max-companies,
\* and the plot and result paths, all in the request's working directory.
C18_DispatchByExtension ==
  spawned # NoArgs =>
     LET sheet == req.layout.ext \in SpreadsheetSpellings
     IN  /\ sheet => (spawned.script = "main.py" /\ spawned.layoutFlag = "--layout-file")
         /\ ~sheet => (spawned.script = "run_from_image.py" /\ spawned.layoutFlag = "--image")
         /\ workDir # 0
         /\ spawned.layoutPath = <<workDir, req.layout>>
         /\ spawned.companiesJsonPath = <<workDir, CompaniesJson>>
         /\ spawned.maxCompanies = EntityCount(req)
         /\ spawned.plotPath = <<workDir, PlotPng>>
         /\ spawned.jsonOutPath = <<workDir, ResultJson>>

\* C18 witness: the job of a layout named gym.XLSX runs as the spreadsheet
\* variant, with the three names of a company sheet as its cap
C18_Witness ==
  /\ srvPc = "running"
  /\ req.layout = FileName("gym", "XLSX")
  /\ spawned.script = "main.py"
  /\ spawned.maxCompanies = 3

\* C20: while the comparison results screen is shown, a registry of fewer than
\* two runs gives the "need another layout" state, with no run shown, and a
\* registry of two or more runs gives exactly two runs of the registry, with
\* different ids and neither of them missing.
C20_ComparisonView ==
  currentScreen = "comparisonResults" =>
     LET view == ComparisonResultsView(comparisonPair)
     IN  /\ Len(runs) < 2 => (view.state = "needAnother" /\ view.shown = <<>>)
         /\ Len(runs) >= 2 =>
              /\ view.state = "compare"
              /\ Len(view.shown) = 2
              /\ view.shown[1].id # view.shown[2].id
              /\ \A i \in 1..2 : \E k \in 1..Len(runs) : view.shown[i] = runs[k]

\* C20 witness: the primary submission failed, a comparison succeeded, and the
\* comparison results screen is shown with that one run in the registry
C20_Witness ==
  /\ currentScreen = "comparisonResults"
  /\ Len(runs) = 1
  /\ runs[1].mode = "comparison"
  /\ ComparisonResultsView(comparisonPair).state = "needAnother"

\* the optimizeLayout calls of the session that have not returned or thrown
InFlight == (IF call # NoCall THEN 1 ELSE 0) + Len(queued)

\* C14 as stated: at most one optimization request of the session is
\* outstanding, and while one is outstanding the session shows a loading
\* screen, from which no submission and no reset can be started.
C14_SingleOutstandingRequest ==
  /\ InFlight <= 1
  /\ InFlight = 1 => currentScreen \in {"loading", "comparisonLoading"}

\* a loading screen is shown
Loading == currentScreen \in {"loading", "comparisonLoading"}
\* the step in which a submission's run is appended / in which the awaited
\* submission ends without a run
SubmissionSucceeds == Len(runs') = Len(runs) + 1
SubmissionFails == call # NoCall /\ call' = NoCall /\ runs' = runs

\* C21 as stated: when requests complete or fail, a loading screen is always
\* left again; the step that ends a comparison submission with its run goes
\* to the comparison results screen, that of a primary or overflow submission
\* to the results screen, and the step that ends a submission in failure goes
\* to the results screen with an error; after the step of a success the error
\* is null.
C21_SubmissionLeavesLoading ==
  /\ Loading ~> ~Loading
  /\ [][/\ SubmissionSucceeds =>
             /\ call.mode = "comparison" => currentScreen' = "comparisonResults"
             /\ call.mode \in {"primary", "overflow"} => currentScreen' = "results"
             /\ error' = Null
        /\ SubmissionFails =>
             /\ currentScreen' = "results"
             /\ error' # Null]_vars

\* the name a cell holds: its number as text, or its characters from the first
\* to the last one that is not white space
NameOf(cell) ==
  IF cell.k = "num" THEN ToString(cell.n)
  ELSE LET inked == {i \in 1..Len(cell.s) : cell.s[i] # " "}
           lo == CHOOSE i \in inked : \A j \in inked : i <= j
           hi == CHOOSE i \in inked : \A j \in inked : j <= i
       IN  Text(SubSeq(cell.s, lo, hi))
\* the first row that holds the name
FirstRowOf(name, rows) ==
  CHOOSE i \in 1..Len(rows) :
     /\ HoldsName(rows[i]) /\ NameOf(rows[i]) = name
     /\ \A j \in 1..(i - 1) : ~(HoldsName(rows[j]) /\ NameOf(rows[j]) = name)
\* list holds the names of the first column of rows, each once, in row order
IsExtractionOf(list, rows) ==
  /\ Range(list) = {NameOf(rows[i]) : i \in {j \in 1..Len(rows) : HoldsName(rows[j])}}
  /\ \A a, b \in 1..Len(list) :
        a < b => FirstRowOf(list[a], rows) < FirstRowOf(list[b], rows)

\* C22 as stated: the entity list the handler extracts from a companiesFile
\* (the list it writes to companies.json), and the list the client's upload
\* screen passes on from a company file, hold the names of the first-column
\* cells - strings trimmed and not empty, numbers as text - in row order, each
\* name once.
C22_SpreadsheetExtraction ==
  [][/\ (srvPc = "request" /\ srvPc' = "running" /\ req.companies.tag = "absent") =>
          IsExtractionOf(FileAt(workFiles', CompaniesJson).doc.items,
                         req.companiesFile.rows)
     /\ \A i \in DOMAIN parses :
          (parses' = Unmount(RemoveAt(parses, i)) /\ (call' # call \/ queued' # queued)) =>
             /\ IsExtractionOf(companies', parses[i].sheet.rows)
             /\ (call' # call => call'.companies = companies')
             /\ (queued' # queued => queued'[Len(queued')].companies = companies')]_vars

\* the names of a list are pairwise distinct
Distinct(list) == \A i, j \in 1..Len(list) : list[i] = list[j] => i = j

\* C23 as stated: with distinct requested names, no entity is assigned in two
\* different primary or overflow runs of the registry, and the list of an
\* overflow submission under way holds no entity that a placement run of the
\* registry assigns.
C23_NoEntityPlacedTwice ==
  Distinct(companies) =>
    /\ \A i, j \in 1..Len(runs) :
          (i < j /\ runs[i].mode # "comparison" /\ runs[j].mode # "comparison")
             => Range(runs[i].assignments) \cap Range(runs[j].assignments) = {}
    /\ call.mode = "overflow" =>
          Range(call.companies) \cap PlacedOf(placementRuns) = {}

\* C24 as stated: the k-th primary or overflow run of the registry, in
\* submission order, is labelled Room A, B, C, D for k up to 4 and "Room k"
\* from there on; the labels of the placement runs are pairwise distinct; every
\* comparison run is labelled "Comparison".
C24_LabelsFollowRegistryOrder ==
  /\ \A i \in 1..Len(runs) :
        /\ runs[i].mode # "comparison" =>
              runs[i].roomLabel = ExpectedLabel(CountUpTo(i, IsPlacement))
        /\ runs[i].mode = "comparison" => runs[i].roomLabel = "Comparison"
  /\ \A i, j \in 1..Len(placementRuns) :
        placementRuns[i].roomLabel = placementRuns[j].roomLabel => i = j

\* C25 as stated: the four paths of an execution - the saved layout,
\* companies.json, plot.png and result.json - are pairwise distinct and lie in
\* the execution's working directory; while the job runs, the file at the
\* layout's path holds the layout; the visualization of a run is never the
\* uploaded layout, and the document read as the job's result is never one the
\* job did not write.
C25_PathsDistinct ==
  spawned # NoArgs =>
     LET paths == <<spawned.layoutPath, spawned.companiesJsonPath,
                    spawned.plotPath, spawned.jsonOutPath>>
     IN  /\ \A i, j \in 1..4 : paths[i] = paths[j] => i = j
         /\ \A i \in 1..4 : paths[i][1] = workDir /\ workDir \in fsDirs
         /\ srvPc = "running" =>
               /\ HasFile(workFiles, req.layout)
               /\ FileAt(workFiles, req.layout).kind = "layout"
         /\ (srvPc = "responded" /\ resp.status = 200) => resp.run.plotUrl # "layout"
         /\ (srvPc = "responded" /\ docRead /\ HasFile(workFiles, ResultJson)) =>
               FileAt(workFiles, ResultJson).kind = "result"

\* the step that appends a comparison run
ComparisonAppended ==
  Len(runs') = Len(runs) + 1 /\ runs'[Len(runs')].mode = "comparison"

\* C26: the step that appends a comparison run keeps every earlier run of the
\* registry in its place and leaves unchanged the requested entity list, the
\* placement runs, the remaining-entities view, the run presented as primary,
\* the label an overflow upload opened next would get, and the upload mode and
\* pending label; the only session data it changes besides the registry's
\* tail is the comparison pair.
C26_ComparisonAppendFrame ==
  [][ComparisonAppended =>
       /\ \A i \in 1..Len(runs) : runs'[i] = runs[i]
       /\ companies' = companies
       /\ placementRuns' = placementRuns
       /\ remainingCompanies' = remainingCompanies
       /\ primaryRun' = primaryRun
       /\ pickRoomLabel(Len(placementRuns')) = pickRoomLabel(Len(placementRuns))
       /\ pendingRoomLabel' = pendingRoomLabel
       /\ uploadMode' = uploadMode
       /\ <<layoutFile', layoutImageUrl', error'>> = <<layoutFile, layoutImageUrl, error>>]_vars

\* C26 witness: a comparison run was appended after a primary run; it assigns
\* an entity that is still remaining, and the primary run stays the one
\* presented
C26_Witness ==
  /\ currentScreen = "comparisonResults"
  /\ Len(runs) = 2
  /\ runs[1].mode = "primary" /\ runs[2].mode = "comparison"
  /\ Range(runs[2].assignments) \cap Range(remainingCompanies) # {}
  /\ primaryRun = runs[1]

====
